---- MODULE Spec2Model ----
(***************************************************************************)
(* A model of Morpheas (src/morpheas.py): the Morph tree, the World root,  *)
(* pointer-event dispatch, drag and drop, and the per-frame draw pass.     *)
(*                                                                         *)
(* Python objects are the elements of Nodes; an object's attributes are    *)
(* the fields of morph[n] (every Morph, the Worlds included) and of wld[w] *)
(* (the attributes World.__init__ adds).  Lists are 1-based sequences, so  *)
(* position[0] of the source is position[1] here.  An exception raised by  *)
(* the code is a value of the field "raised" that aborts the operation and *)
(* keeps the assignments made before it, as in Python.                     *)
(***************************************************************************)
EXTENDS Integers, Sequences, FiniteSets, TLC

VARIABLES morph, wld, last, count

vars == <<morph, wld, last, count>>

(***************************************************************************)
(* Objects                                                                 *)
(***************************************************************************)
Worlds == {"W1", "W2"}
Morphs == {"M1", "M2", "M3"}
Nodes == Worlds \cup Morphs
None == "None"

\* Bounds: the number of add_morph calls, of World.on_event calls, of
\* World.draw calls and of attribute assignments in a behaviour.
MaxAttach == 3
MaxEvents == 2
MaxDraws == 1
MaxSets == 2

\* Python's recursion limit stands above every finite descent of the trees
\* built here; a descent that exhausts it is an unbounded recursion.
RecursionLimit == 2 * Cardinality(Nodes) + 2

NoError == "none"

Ok(v) == [err |-> NoError, val |-> v]
Err(e) == [err |-> e, val |-> None]

Max(a, b) == IF a > b THEN a ELSE b
Min(a, b) == IF a < b THEN a ELSE b

(***************************************************************************)
(* Construction                                                            *)
(***************************************************************************)
NoEvent == [type |-> "None", value |-> "None", mouse_region_x |-> 0, mouse_region_y |-> 0]

\* Morph.__init__ (ButtonMorph.__init__ when cls = "ButtonMorph": the three
\* handles_ flags set, hover_glow_mode kept).
NewMorph(cls, width, height, position, name, scale, drag_drop, circle, hover_glow_mode) ==
    [ cls |-> cls,
      real_width |-> width, real_height |-> height, real_position |-> position,
      _width |-> width * scale, _height |-> height * scale, _position |-> position,
      color |-> <<10, 10, 10, 10>>,
      handles_mouse_down |-> (cls = "ButtonMorph"),
      handles_events |-> (cls = "ButtonMorph"),
      handles_mouse_over |-> (cls = "ButtonMorph"),
      handles_drag_drop |-> drag_drop,
      _is_hidden |-> FALSE,
      _parent |-> None, children |-> <<>>, _world |-> None,
      bounds |-> <<position[1], position[2], position[1] + width, position[2] + height>>,
      _name |-> name, scale |-> scale, circle |-> circle,
      drag_drop |-> FALSE, drag_position |-> <<0, 0>>,
      actions |-> {},
      textures |-> {}, image |-> None,
      hover_glow_mode |-> hover_glow_mode ]

\* World.__init__: the Morph part, then _width and _height overwritten.
NewWorldMorph(scale) ==
    [ NewMorph("World", 100, 100, <<0, 0>>, "noname", scale, FALSE, FALSE, FALSE)
        EXCEPT !._width = 2000, !._height = 2000 ]

\* World.__init__: the attributes a World adds.  auto_hide is assigned True
\* whatever the constructor was given.
NewWorld(auto_hide) ==
    [ consumed_event |-> FALSE,
      mouse_position |-> <<0, 0>>,
      mouse_position_absolute |-> <<0, 0>>,
      mouse_cursor_inside |-> FALSE,
      window_position |-> <<0, 0>>,
      event |-> NoEvent,
      draw_area |-> <<0, 0, 0, 0>>,
      draw_area_position |-> <<0, 0>>,
      auto_hide |-> TRUE ]

\* The record of the last operation: what was called, what it returned, the
\* exception it raised, and the handlers and renderings it performed, in order.
Last(op, self, arg, ret, raised, calls) ==
    [op |-> op, self |-> self, arg |-> arg, ret |-> ret, raised |-> raised, calls |-> calls]

(***************************************************************************)
(* Properties of Morph that walk the parent chain                          *)
(***************************************************************************)

\* Morph.world (getter): resolved through the parent when unset, and cached.
RECURSIVE world_get(_, _, _)
world_get(ms, n, fuel) ==
    IF fuel = 0 THEN [m |-> ms, err |-> "RecursionError", val |-> None]
    ELSE IF ms[n]._world = None /\ ms[n]._parent # None
    THEN LET r == world_get(ms, ms[n]._parent, fuel - 1)
         IN  IF r.err # NoError THEN r
             ELSE [m |-> [r.m EXCEPT ![n]._world = r.val], err |-> NoError, val |-> r.val]
    ELSE [m |-> ms, err |-> NoError, val |-> ms[n]._world]

\* Morph.get_absolute_scale
RECURSIVE get_absolute_scale_rec(_, _, _)
get_absolute_scale_rec(ms, n, fuel) ==
    IF fuel = 0 THEN Err("RecursionError")
    ELSE IF ms[n]._parent # None
    THEN LET r == get_absolute_scale_rec(ms, ms[n]._parent, fuel - 1)
         IN  IF r.err # NoError THEN r ELSE Ok(ms[n].scale * r.val)
    ELSE Ok(ms[n].scale)

get_absolute_scale(ms, n) == get_absolute_scale_rec(ms, n, RecursionLimit)

(***************************************************************************)
(* add_morph                                                               *)
(***************************************************************************)

\* add_morph growing only the upper corner of self.bounds.
ExpandBoundsUpper(b, c) ==
    << b[1], b[2],
       IF b[3] < c[3] THEN c[3] ELSE b[3],
       IF b[4] < c[4] THEN c[4] ELSE b[4] >>

\* The four comparisons that grow self.bounds to cover morph.bounds.
ExpandBounds(b, c) ==
    << IF b[1] > c[1] THEN c[1] ELSE b[1],
       IF b[2] > c[2] THEN c[2] ELSE b[2],
       IF b[3] < c[3] THEN c[3] ELSE b[3],
       IF b[4] < c[4] THEN c[4] ELSE b[4] >>

\* Morph.add_morph and World.add_morph, as [m, err].
add_morph(ms, self, c) ==
    LET m1 == [ms EXCEPT ![c]._parent = self]
        w  == IF self \in Worlds
              THEN [m |-> m1, err |-> NoError, val |-> self]
              ELSE world_get(m1, self, RecursionLimit)
    IN  IF w.err # NoError THEN [m |-> w.m, err |-> w.err]
        ELSE LET m2 == [w.m EXCEPT ![c]._world = w.val]
                 m3 == [m2 EXCEPT ![self].children = Append(@, c)]
                 m4 == [m3 EXCEPT ![self].bounds = ExpandBounds(@, m3[c].bounds)]
             IN  [m |-> m4, err |-> NoError]

NumAttached(ms) ==
    LET RECURSIVE Sum(_)
        Sum(S) == IF S = {} THEN 0
                  ELSE LET n == CHOOSE x \in S : TRUE
                       IN  Len(ms[n].children) + Sum(S \ {n})
    IN  Sum(Nodes)

AddMorph(self, c) ==
    /\ NumAttached(morph) < MaxAttach
    /\ LET r == add_morph(morph, self, c)
       IN  /\ morph' = r.m
           /\ last' = Last("add_morph", self, c, None, r.err, <<>>)
    /\ UNCHANGED <<wld, count>>

(***************************************************************************)
(* is_hidden                                                               *)
(***************************************************************************)

\* Morph.is_hidden (setter), as [m, err]: the children whose flag differs are
\* assigned first, each through this same setter, then the own flag.
RECURSIVE is_hidden_set(_, _, _, _)
RECURSIVE is_hidden_children(_, _, _, _, _)
is_hidden_children(ms, n, i, value, fuel) ==
    IF i > Len(ms[n].children) THEN [m |-> ms, err |-> NoError]
    ELSE LET c == ms[n].children[i]
             r == IF ms[c]._is_hidden # value
                  THEN is_hidden_set(ms, c, value, fuel - 1)
                  ELSE [m |-> ms, err |-> NoError]
         IN  IF r.err # NoError THEN r
             ELSE is_hidden_children(r.m, n, i + 1, value, fuel)

is_hidden_set(ms, n, value, fuel) ==
    IF fuel = 0 THEN [m |-> ms, err |-> "RecursionError"]
    ELSE LET r == is_hidden_children(ms, n, 1, value, fuel)
         IN  IF r.err # NoError THEN r
             ELSE [m |-> [r.m EXCEPT ![n]._is_hidden = value], err |-> NoError]

SetHidden(n, value) ==
    /\ LET r == is_hidden_set(morph, n, value, RecursionLimit)
       IN  /\ morph' = r.m
           /\ last' = Last("is_hidden", n, value, None, r.err, <<>>)
    /\ UNCHANGED <<wld, count>>

(***************************************************************************)
(* get_child_morph_named                                                   *)
(***************************************************************************)

\* Morph.get_child_morph_named, as [err, val]: a child of that name is
\* returned; for any other child the method is called on it and what it
\* returns is dropped.
RECURSIVE get_child_morph_named_rec(_, _, _, _, _)
get_child_morph_named_rec(ms, n, i, nm, fuel) ==
    IF fuel = 0 THEN Err("RecursionError")
    ELSE IF i > Len(ms[n].children) THEN Ok(None)
    ELSE LET c == ms[n].children[i]
         IN  IF ms[c]._name = nm THEN Ok(c)
             ELSE LET r == get_child_morph_named_rec(ms, c, 1, nm, fuel - 1)
                  IN  IF r.err # NoError THEN r
                      ELSE get_child_morph_named_rec(ms, n, i + 1, nm, fuel)

get_child_morph_named(ms, n, nm) == get_child_morph_named_rec(ms, n, 1, nm, RecursionLimit)

Names == {"noname", "a", "b"}

GetChildMorphNamed(n, nm) ==
    /\ LET r == get_child_morph_named(morph, n, nm)
       IN  last' = Last("get_child_morph_named", n, nm, r.val, r.err, <<>>)
    /\ UNCHANGED <<morph, wld, count>>

(***************************************************************************)
(* Geometry                                                                *)
(***************************************************************************)

\* Morph.get_absolute_position, as [err, val]; World.get_absolute_position
\* for a World (position plus draw_area_position, no recursion).
RECURSIVE get_absolute_position_rec(_, _, _, _)
get_absolute_position_rec(ms, ws, n, fuel) ==
    IF fuel = 0 THEN Err("RecursionError")
    ELSE IF n \in Worlds
    THEN Ok(<< ms[n].real_position[1] + ws[n].draw_area_position[1],
               ms[n].real_position[2] + ws[n].draw_area_position[2] >>)
    ELSE IF ms[n]._parent # None
    THEN LET r == get_absolute_position_rec(ms, ws, ms[n]._parent, fuel - 1)
         IN  IF r.err # NoError THEN r
             ELSE Ok(<< r.val[1] + ms[n]._position[1], r.val[2] + ms[n]._position[2] >>)
    ELSE Ok(ms[n]._position)

get_absolute_position(ms, ws, n) == get_absolute_position_rec(ms, ws, n, RecursionLimit)

\* Morph.world_position ending at the position of the parentless morph
\* instead of [0, 0].
RECURSIVE world_position_from_own(_, _, _)
world_position_from_own(ms, n, fuel) ==
    IF fuel = 0 THEN Err("RecursionError")
    ELSE IF ms[n]._parent # None
    THEN LET r == world_position_from_own(ms, ms[n]._parent, fuel - 1)
         IN  IF r.err # NoError THEN r
             ELSE Ok(<< r.val[1] + ms[n].real_position[1], r.val[2] + ms[n].real_position[2] >>)
    ELSE Ok(ms[n].real_position)

\* Morph.world_position, as [err, val].
RECURSIVE world_position_rec(_, _, _)
world_position_rec(ms, n, fuel) ==
    IF fuel = 0 THEN Err("RecursionError")
    ELSE IF ms[n]._parent # None
    THEN LET r == world_position_rec(ms, ms[n]._parent, fuel - 1)
         IN  IF r.err # NoError THEN r
             ELSE Ok(<< r.val[1] + ms[n].real_position[1], r.val[2] + ms[n].real_position[2] >>)
    ELSE Ok(<<0, 0>>)

world_position(ms, n) == world_position_rec(ms, n, RecursionLimit)

\* Morph.absolute_position, as [err, val], for a morph whose world is w.
absolute_position(ms, ws, n, w) ==
    LET r == world_position(ms, n)
    IN  IF r.err # NoError THEN r
        ELSE Ok(<< r.val[1] + ws[w].draw_area[1], r.val[2] + ws[w].draw_area[2] >>)

\* Morph.position_scaled, as [err, val].
position_scaled(ms, n) ==
    LET s == get_absolute_scale(ms, n)
    IN  IF s.err # NoError THEN s
        ELSE Ok(<< ms[n].real_position[1] * s.val, ms[n].real_position[2] * s.val >>)

\* morpheas_tools.pointsDistance(x1, y1, x2, y2) <= r, with every length
\* doubled so that the radius _width / 2 stays an integer: the squared
\* distance of the doubled points against the squared doubled radius.
pointsDistanceWithin(cx2, cy2, ex2, ey2, r2) ==
    (cx2 - ex2) * (cx2 - ex2) + (cy2 - ey2) * (cy2 - ey2) <= r2 * r2

\* morpheas_tools.collisionDetect(x1, y1, x2, y2, w1, h1, w2, h2): the
\* axis-aligned rectangles at (x1, y1) and (x2, y2) overlap.
collisionDetect(x1, y1, x2, y2, w1, h1, w2, h2) ==
    /\ x1 < x2 + w2
    /\ x2 < x1 + w1
    /\ y1 < y2 + h2
    /\ y2 < y1 + h1

(***************************************************************************)
(* The state an operation threads through its calls:                       *)
(* m and w are morph and wld, calls the handlers and renderings invoked so *)
(* far, raised the exception in flight.                                    *)
(***************************************************************************)
St(ms, ws) == [m |-> ms, w |-> ws, calls |-> <<>>, raised |-> NoError]

Raise(st, e) == [st EXCEPT !.raised = e]

Call(st, n, handler, action) == [st EXCEPT !.calls = Append(@, <<n, handler, action>>)]

\* self.world inside an operation, as [st, err, val]: the getter with its
\* caching; err is AttributeError when an attribute of None would be read.
self_world(st, n) ==
    LET got(r) ==
            IF r.err # NoError THEN [st |-> st, err |-> r.err, val |-> None]
            ELSE IF r.val = None
            THEN [st |-> [st EXCEPT !.m = r.m], err |-> "AttributeError", val |-> None]
            ELSE [st |-> [st EXCEPT !.m = r.m], err |-> NoError, val |-> r.val]
    IN  got(world_get(st.m, n, RecursionLimit))

\* Morph.mouse_over_morph with the circle test strict (< in place of <=): a
\* pointer on the circle itself is not over the morph.
mouse_over_morph_strict(st0, n) ==
    LET test(wr, st, ap) ==
            IF st.m[n].circle
            THEN IF wr.err # NoError THEN [st |-> st, err |-> wr.err, val |-> FALSE]
                 ELSE IF ap.err # NoError THEN [st |-> st, err |-> ap.err, val |-> FALSE]
                 ELSE LET e == st.w[wr.val].mouse_position_absolute
                          d == st.m[n]._width
                          dx == 2 * ap.val[1] + d - 2 * e[1]
                          dy == 2 * ap.val[2] + d - 2 * e[2]
                      IN  [st |-> st, err |-> NoError, val |-> dx * dx + dy * dy < d * d]
            ELSE IF ap.err # NoError THEN [st |-> st0, err |-> ap.err, val |-> FALSE]
                 ELSE IF st.m[n].real_width < 0 \/ st.m[n]._height < 0
                 THEN [st |-> st0, err |-> "ValueError", val |-> FALSE]
                 ELSE IF wr.err # NoError THEN [st |-> st, err |-> wr.err, val |-> FALSE]
                 ELSE LET ex == st.w[wr.val].mouse_position_absolute[1]
                          ey == st.w[wr.val].mouse_position_absolute[2]
                      IN  [st |-> st, err |-> NoError,
                           val |-> (/\ ex > ap.val[1] /\ ex < ap.val[1] + st.m[n].real_width
                                    /\ ey > ap.val[2] /\ ey < ap.val[2] + st.m[n].real_height)]
        in_world(wr) == test(wr, wr.st, get_absolute_position(wr.st.m, wr.st.w, n))
    IN  in_world(self_world(st0, n))

\* Morph.mouse_over_morph, as [st, err, val].
mouse_over_morph(st0, n) ==
    LET test(wr, st, ap) ==
            IF st.m[n].circle
            THEN IF wr.err # NoError THEN [st |-> st, err |-> wr.err, val |-> FALSE]
                 ELSE IF ap.err # NoError THEN [st |-> st, err |-> ap.err, val |-> FALSE]
                 ELSE LET e == st.w[wr.val].mouse_position_absolute
                          d == st.m[n]._width
                      IN  [st |-> st, err |-> NoError,
                           val |-> pointsDistanceWithin(2 * ap.val[1] + d, 2 * ap.val[2] + d,
                                                        2 * e[1], 2 * e[2], d)]
            ELSE IF ap.err # NoError THEN [st |-> st0, err |-> ap.err, val |-> FALSE]
                 ELSE IF st.m[n].real_width < 0 \/ st.m[n]._height < 0
                 THEN [st |-> st0, err |-> "ValueError", val |-> FALSE]
                 ELSE IF wr.err # NoError THEN [st |-> st, err |-> wr.err, val |-> FALSE]
                 ELSE LET apx1 == ap.val[1]
                          apy1 == ap.val[2]
                          apx2 == ap.val[1] + st.m[n].real_width
                          apy2 == ap.val[2] + st.m[n].real_height
                          ex == st.w[wr.val].mouse_position_absolute[1]
                          ey == st.w[wr.val].mouse_position_absolute[2]
                      IN  [st |-> st, err |-> NoError,
                           val |-> (ex > apx1 /\ ex < apx2 /\ ey > apy1 /\ ey < apy2)]
        in_world(wr) == test(wr, wr.st, get_absolute_position(wr.st.m, wr.st.w, n))
    IN  in_world(self_world(st0, n))

(***************************************************************************)
(* The click and hover handlers                                            *)
(***************************************************************************)

\* Morph.on_left_click starting a drag whether or not the morph is
\* drag-enabled.
on_left_click_any(st, n) ==
    IF "on_left_click" \in st.m[n].actions
    THEN Call(st, n, "on_left_click", "on_left_click")
    ELSE LET start(wr) ==
                 IF wr.err # NoError THEN Raise(wr.st, wr.err)
                 ELSE [wr.st EXCEPT !.m[n].drag_drop = TRUE,
                                    !.m[n].drag_position = wr.st.w[wr.val].mouse_position]
             s1 == Call(st, n, "on_left_click", None)
         IN  IF ~ s1.m[n].drag_drop THEN start(self_world(s1, n)) ELSE s1

\* Morph.on_left_click
on_left_click(st, n) ==
    IF "on_left_click" \in st.m[n].actions
    THEN Call(st, n, "on_left_click", "on_left_click")
    ELSE LET start(wr) ==
                 IF wr.err # NoError THEN Raise(wr.st, wr.err)
                 ELSE [wr.st EXCEPT !.m[n].drag_drop = TRUE,
                                    !.m[n].drag_position = wr.st.w[wr.val].mouse_position]
             s1 == Call(st, n, "on_left_click", None)
         IN  IF ~ s1.m[n].drag_drop /\ s1.m[n].handles_drag_drop
             THEN start(self_world(s1, n))
             ELSE s1

\* Morph.on_left_click_released
on_left_click_released(st, n) ==
    IF "on_left_click_released" \in st.m[n].actions
    THEN Call(st, n, "on_left_click_released", "on_left_click_released")
    ELSE LET s1 == Call(st, n, "on_left_click_released", None)
         IN  IF s1.m[n].drag_drop /\ s1.m[n].handles_drag_drop
             THEN [s1 EXCEPT !.m[n].drag_drop = FALSE]
             ELSE s1

\* Morph.on_right_click
on_right_click(st, n) ==
    IF "on_right_click" \in st.m[n].actions
    THEN Call(st, n, "on_right_click", "on_right_click")
    ELSE Call(st, n, "on_right_click", None)

\* Morph.on_right_click_released
on_right_click_released(st, n) ==
    IF "on_right_click_released" \in st.m[n].actions
    THEN Call(st, n, "on_right_click_released", "on_right_click_released")
    ELSE Call(st, n, "on_right_click_released", None)

\* ButtonMorph.change_appearance with the two alphas exchanged.
change_appearance_swapped(st, n, value) ==
    LET c == st.m[n].color
    IN  IF value = 0 THEN [st EXCEPT !.m[n].color = <<c[1], c[2], c[3], 10>>]
        ELSE IF value = 1 THEN [st EXCEPT !.m[n].color = <<c[1], c[2], c[3], 5>>]
        ELSE st

\* ButtonMorph.change_appearance: the alpha channel, in tenths.
change_appearance(st, n, value) ==
    LET c == st.m[n].color
    IN  IF value = 0 THEN [st EXCEPT !.m[n].color = <<c[1], c[2], c[3], 5>>]
        ELSE IF value = 1 THEN [st EXCEPT !.m[n].color = <<c[1], c[2], c[3], 10>>]
        ELSE st

\* Morph.on_mouse_in and ButtonMorph.on_mouse_in
on_mouse_in(st, n) ==
    IF st.m[n].cls = "ButtonMorph"
    THEN LET s1 == Call(st, n, "on_mouse_in", None)
         IN  IF s1.m[n].hover_glow_mode THEN change_appearance(s1, n, 1) ELSE s1
    ELSE IF "on_mouse_in" \in st.m[n].actions
    THEN Call(st, n, "on_mouse_in", "on_mouse_in")
    ELSE Call(st, n, "on_mouse_in", None)

\* Morph.on_mouse_out and ButtonMorph.on_mouse_out: the bound mouse-out
\* action is asked for its on_mouse_in method.
on_mouse_out(st, n) ==
    IF st.m[n].cls = "ButtonMorph"
    THEN LET s1 == Call(st, n, "on_mouse_out", None)
         IN  IF s1.m[n].hover_glow_mode THEN change_appearance(s1, n, 0) ELSE s1
    ELSE IF "on_mouse_out" \in st.m[n].actions
    THEN Call(st, n, "on_mouse_out", "on_mouse_in")
    ELSE Call(st, n, "on_mouse_out", None)

\* Morph.on_mouse_click.  Setting consumed_event is recorded among the calls,
\* with the World whose flag was set.
on_mouse_click(st, n, ev) ==
    LET handle(s1) ==
            IF ev.type = "LEFTMOUSE" /\ ev.value = "PRESS" THEN on_left_click(s1, n)
            ELSE IF ev.type = "LEFTMOUSE" /\ ev.value = "RELEASE"
            THEN on_left_click_released(s1, n)
            ELSE IF ev.type = "RIGHTMOUSE" /\ ev.value = "PRESS"
            THEN on_right_click(s1, n)
            ELSE IF ev.type = "RIGHTMOUSE" /\ ev.value = "RELEASE"
            THEN on_right_click_released(s1, n)
            ELSE s1
        consume(wr) ==
            IF wr.err # NoError THEN Raise(wr.st, wr.err)
            ELSE handle(Call([wr.st EXCEPT !.w[wr.val].consumed_event = TRUE],
                             n, "consumed_event", wr.val))
        over(mo) ==
            IF mo.err # NoError THEN Raise(mo.st, mo.err)
            ELSE IF ~ (mo.val /\ mo.st.m[n].handles_mouse_down) THEN mo.st
            ELSE consume(self_world(mo.st, n))
    IN  over(mouse_over_morph(st, n))

(***************************************************************************)
(* The drag step of on_mouse_over                                          *)
(***************************************************************************)

\* The drag step without the collision loop: cancel_drag stays False.
drag_collides_never(ms, n, w, i, positionX, positionY, cancel) ==
    [err |-> NoError, val |-> FALSE]

\* The loop over self.world.children, as [err, val]: val is cancel_drag.
\* The loop has no break: every child is tested.
RECURSIVE drag_collides(_, _, _, _, _, _, _)
drag_collides(ms, n, w, i, positionX, positionY, cancel) ==
    IF i > Len(ms[w].children) THEN [err |-> NoError, val |-> cancel]
    ELSE LET bigMorph == ms[w].children[i]
             against(ps) ==
                 IF ps.err # NoError THEN [err |-> ps.err, val |-> cancel]
                 ELSE IF ms[n]._width < 0 \/ ms[n]._height < 0 \/ ms[bigMorph]._width < 0
                         \/ ms[bigMorph]._height < 0
                 THEN [err |-> "ValueError", val |-> cancel]
                 ELSE drag_collides(ms, n, w, i + 1, positionX, positionY,
                          cancel \/ collisionDetect(positionX, positionY, ps.val[1], ps.val[2],
                                        ms[n]._width, ms[n]._height,
                                        ms[bigMorph]._width, ms[bigMorph]._height))
         IN  IF ms[bigMorph]._name # ms[n]._name /\ ms[bigMorph]._is_hidden = FALSE
             THEN against(position_scaled(ms, bigMorph))
             ELSE drag_collides(ms, n, w, i + 1, positionX, positionY, cancel)

\* Morph.position (setter) keeping the scaled value as the position too.
position_set_scaled(ms, n, value) ==
    LET scaled(m1, s) ==
            IF s.err # NoError THEN [m |-> m1, err |-> s.err]
            ELSE [m |-> [m1 EXCEPT ![n].real_position = <<value[1] * s.val, value[2] * s.val>>,
                                   ![n]._position = <<value[1] * s.val, value[2] * s.val>>],
                  err |-> NoError]
        assigned(m1) == scaled(m1, get_absolute_scale(m1, n))
    IN  assigned([ms EXCEPT ![n].real_position = value])

\* Morph.position (setter), as [m, err].
position_set(ms, n, value) ==
    LET scaled(m1, s) ==
            IF s.err # NoError THEN [m |-> m1, err |-> s.err]
            ELSE [m |-> [m1 EXCEPT ![n]._position = <<value[1] * s.val, value[2] * s.val>>],
                  err |-> NoError]
        assigned(m1) == scaled(m1, get_absolute_scale(m1, n))
    IN  assigned([ms EXCEPT ![n].real_position = value])

\* Morph.on_mouse_over without the clamp to the viewport.
on_mouse_over_unclamped(st, n, area) ==
    LET commit(s1, mp, ps) ==
            IF ps.err # NoError
            THEN Raise([s1 EXCEPT !.m = ps.m], ps.err)
            ELSE [s1 EXCEPT !.m = [ps.m EXCEPT ![n].drag_position = mp]]
        decide(s1, mp, positionX, positionY, cd) ==
            IF cd.err # NoError THEN Raise(s1, cd.err)
            ELSE IF cd.val THEN s1
            ELSE commit(s1, mp, position_set(s1.m, n, <<positionX, positionY>>))
        move(s1, w, mp, positionX, positionY) ==
            decide(s1, mp, positionX, positionY,
                   drag_collides(s1.m, n, w, 1, positionX, positionY, FALSE))
        drag(wr) ==
            IF wr.err # NoError THEN Raise(wr.st, wr.err)
            ELSE LET s1 == wr.st
                     mp == s1.w[wr.val].mouse_position
                 IN  move(s1, wr.val, mp,
                          s1.m[n].real_position[1] + mp[1] - s1.m[n].drag_position[1],
                          s1.m[n].real_position[2] + mp[2] - s1.m[n].drag_position[2])
        hover(mo) ==
            IF mo.err # NoError THEN Raise(mo.st, mo.err)
            ELSE IF mo.val THEN on_mouse_in(mo.st, n)
            ELSE on_mouse_out(mo.st, n)
        after(dragged) ==
            IF dragged.raised # NoError THEN dragged
            ELSE hover(mouse_over_morph(dragged, n))
    IN  after(IF ~ st.m[n].drag_drop THEN st ELSE drag(self_world(st, n)))

\* Morph.on_mouse_over.  area is the size bpy.context.area.regions[4] has
\* when the event arrives, or the 100 by 100 the code falls back to when
\* reading it fails.
on_mouse_over(st, n, area) ==
    LET commit(s1, mp, ps) ==
            IF ps.err # NoError
            THEN Raise([s1 EXCEPT !.m = ps.m], ps.err)
            ELSE [s1 EXCEPT !.m = [ps.m EXCEPT ![n].drag_position = mp]]
        decide(s1, mp, positionX, positionY, cd) ==
            IF cd.err # NoError THEN Raise(s1, cd.err)
            ELSE IF cd.val THEN s1
            ELSE commit(s1, mp, position_set(s1.m, n, <<positionX, positionY>>))
        move(s1, w, mp, positionX, positionY) ==
            decide(s1, mp, positionX, positionY,
                   drag_collides(s1.m, n, w, 1, positionX, positionY, FALSE))
        drag(wr) ==
            IF wr.err # NoError THEN Raise(wr.st, wr.err)
            ELSE LET s1 == wr.st
                     mp == s1.w[wr.val].mouse_position
                     offset == << mp[1] - s1.m[n].drag_position[1],
                                  mp[2] - s1.m[n].drag_position[2] >>
                 IN  move(s1, wr.val, mp,
                          Max(Min(area[1] - s1.m[n]._width,
                                  s1.m[n].real_position[1] + offset[1]), 0),
                          Max(Min(area[2] - s1.m[n]._height,
                                  s1.m[n].real_position[2] + offset[2]), 0))
        hover(mo) ==
            IF mo.err # NoError THEN Raise(mo.st, mo.err)
            ELSE IF mo.val THEN on_mouse_in(mo.st, n)
            ELSE on_mouse_out(mo.st, n)
        after(dragged) ==
            IF dragged.raised # NoError THEN dragged
            ELSE hover(mouse_over_morph(dragged, n))
    IN  after(IF ~ st.m[n].drag_drop THEN st ELSE drag(self_world(st, n)))

(***************************************************************************)
(* Event dispatch                                                          *)
(***************************************************************************)

\* Morph.on_event
RECURSIVE on_event(_, _, _, _, _)
RECURSIVE on_event_children(_, _, _, _, _, _)
on_event_children(st, n, i, ev, area, fuel) ==
    IF st.raised # NoError \/ i > Len(st.m[n].children) THEN st
    ELSE on_event_children(on_event(st, st.m[n].children[i], ev, area, fuel - 1),
                           n, i + 1, ev, area, fuel)

on_event(st, n, ev, area, fuel) ==
    IF fuel = 0 THEN Raise(st, "RecursionError")
    ELSE LET dispatch(wr) ==
                 IF wr.err # NoError THEN Raise(wr.st, wr.err)
                 ELSE IF wr.st.w[wr.val].consumed_event THEN wr.st
                 ELSE IF ev.type \in {"LEFTMOUSE", "RIGHTMOUSE"}
                 THEN on_mouse_click(wr.st, n, ev)
                 ELSE IF ev.type \in {"MOUSEMOVE"}
                 THEN on_mouse_over(wr.st, n, area)
                 ELSE wr.st
             own(s1) ==
                 IF s1.raised # NoError THEN s1
                 ELSE IF ~ s1.m[n].handles_events \/ s1.m[n]._is_hidden THEN s1
                 ELSE dispatch(self_world(s1, n))
         IN  own(on_event_children(st, n, 1, ev, area, fuel))

\* World.on_event.  region is context.region (None, or its x and y).
world_on_event(st, w, ev, region, area) ==
    IF region = <<>> THEN st
    ELSE LET s1 == [st EXCEPT
                      !.w[w].window_position = region,
                      !.w[w].mouse_position_absolute =
                          << ev.mouse_region_x + region[1], ev.mouse_region_y + region[2] >>,
                      !.w[w].event = ev,
                      !.w[w].consumed_event = FALSE]
         IN  on_event_children(s1, w, 1, ev, area, RecursionLimit)

(***************************************************************************)
(* The frame pass                                                          *)
(***************************************************************************)

\* World.disable_all_drag_drop
RECURSIVE disable_all_drag_drop(_, _, _, _)
disable_all_drag_drop(st, n, i, fuel) ==
    IF st.raised # NoError THEN st
    ELSE IF fuel = 0 THEN Raise(st, "RecursionError")
    ELSE IF i > Len(st.m[n].children) THEN st
    ELSE LET child == st.m[n].children[i]
         IN  disable_all_drag_drop(
                 disable_all_drag_drop([st EXCEPT !.m[child].drag_drop = FALSE],
                                       child, 1, fuel - 1),
                 n, i + 1, fuel)

\* Morph.draw: the scaled size and position recomputed, the morph rendered
\* and its children drawn unless it is hidden.
RECURSIVE draw(_, _, _)
RECURSIVE draw_children(_, _, _, _)
draw_children(st, n, i, fuel) ==
    IF st.raised # NoError \/ i > Len(st.m[n].children) THEN st
    ELSE draw_children(draw(st, st.m[n].children[i], fuel - 1), n, i + 1, fuel)

draw(st, n, fuel) ==
    IF fuel = 0 THEN Raise(st, "RecursionError")
    ELSE LET render(wr, s2, ap) ==
                 IF ap.err # NoError THEN Raise(s2, ap.err)
                 ELSE IF wr.val = None THEN Raise(s2, "AttributeError")
                 ELSE IF s2.m[n]._is_hidden THEN s2
                 ELSE draw_children(Call(s2, n, "draw", None), n, 1, fuel)
             placed(wr, s2) == render(wr, s2, get_absolute_position(s2.m, s2.w, n))
             place(s, s1, wr) ==
                 IF wr.err # NoError THEN Raise(s1, wr.err)
                 ELSE LET rp == s1.m[n].real_position
                      IN  placed(wr, [s1 EXCEPT !.m = [wr.m EXCEPT ![n]._position =
                                         IF wr.m[n]._parent = wr.val THEN rp
                                         ELSE <<rp[1] * s.val, rp[2] * s.val>>]])
             sized(s, s1) == place(s, s1, world_get(s1.m, n, RecursionLimit))
             size(s) ==
                 IF s.err # NoError THEN Raise(st, s.err)
                 ELSE sized(s, [st EXCEPT !.m[n]._width = st.m[n].real_width * s.val,
                                          !.m[n]._height = st.m[n].real_height * s.val])
         IN  size(get_absolute_scale(st.m, n))

\* World.draw.  viewport is <<x, y, width, height>>: x and y of
\* bpy.context.area.regions[4], width and height of the GL viewport;
\* eligible is context.area.type == "VIEW_3D" and context.region.type ==
\* "WINDOW".
world_draw(st, w, viewport, eligible) ==
    IF st.w[w].event.type = "None" THEN st
    ELSE LET mabx == st.w[w].mouse_position_absolute[1]
             maby == st.w[w].mouse_position_absolute[2]
             inside == /\ mabx > viewport[1]
                       /\ mabx < viewport[1] + viewport[3]
                       /\ maby > viewport[2]
                       /\ maby < viewport[2] + viewport[4]
             pass(s2) ==
                 IF s2.raised # NoError THEN s2
                 ELSE IF (inside /\ s2.w[w].auto_hide /\ eligible) \/ ~ s2.w[w].auto_hide
                 THEN draw_children(
                          [s2 EXCEPT
                             !.w[w].draw_area = viewport,
                             !.w[w].draw_area_position = <<viewport[1], viewport[2]>>,
                             !.w[w].mouse_position =
                                 << s2.w[w].mouse_position_absolute[1] - viewport[1],
                                    s2.w[w].mouse_position_absolute[2] - viewport[2] >>],
                          w, 1, RecursionLimit)
                 ELSE s2
             cursor(s1) ==
                 pass(IF ~ inside THEN disable_all_drag_drop(s1, w, 1, RecursionLimit) ELSE s1)
         IN  cursor([st EXCEPT !.w[w].mouse_cursor_inside = inside])

\* The host calls World.on_event.
OnEvent(w, ev, region, area) ==
    /\ count.events < MaxEvents
    /\ LET returned(r) ==
               /\ morph' = r.m
               /\ wld' = r.w
               /\ last' = Last("on_event", w, [event |-> ev, region |-> region, area |-> area], None,
                               r.raised, r.calls)
       IN  returned(world_on_event(St(morph, wld), w, ev, region, area))
    /\ count' = [count EXCEPT !.events = @ + 1]

\* The host calls World.draw.
Draw(w, viewport, eligible) ==
    /\ count.draws < MaxDraws
    /\ LET returned(r) ==
               /\ morph' = r.m
               /\ wld' = r.w
               /\ last' = Last("draw", w, [viewport |-> viewport, eligible |-> eligible], None,
                               r.raised, r.calls)
       IN  returned(world_draw(St(morph, wld), w, viewport, eligible))
    /\ count' = [count EXCEPT !.draws = @ + 1]

\* The program reads the property mouse_over_morph of n.
MouseOverMorph(n) ==
    /\ LET returned(r) ==
               /\ morph' = r.st.m
               /\ last' = Last("mouse_over_morph", n, None, r.val, r.err, <<>>)
       IN  returned(mouse_over_morph(St(morph, wld), n))
    /\ UNCHANGED <<wld, count>>

(***************************************************************************)
(* The tree: construction, attachment and lookup                           *)
(***************************************************************************)
TreeNames == [M1 |-> "a", M2 |-> "b", M3 |-> "b"]

InitTree ==
    /\ morph = [n \in Nodes |->
                  IF n \in Worlds THEN NewWorldMorph(1)
                  ELSE NewMorph("Morph", 4, 4, <<0, 0>>, TreeNames[n], 1, FALSE, FALSE, FALSE)]
    /\ wld = [w \in Worlds |-> NewWorld(TRUE)]
    /\ last = Last("init", None, None, None, NoError, <<>>)
    /\ count = [events |-> 0, draws |-> 0, sets |-> 0]

NextTree ==
    \/ \E p \in Nodes, c \in Morphs : AddMorph(p, c)
    \/ \E n \in Nodes, nm \in {"a", "b"} : GetChildMorphNamed(n, nm)

SpecTree == InitTree /\ [][NextTree]_vars

\* Hiding: attachment and assignments of is_hidden.
NextHidden ==
    \/ \E p \in Morphs, c \in Morphs : AddMorph(p, c)
    \/ \E n \in Morphs, v \in BOOLEAN : SetHidden(n, v)

SpecHidden == InitTree /\ [][NextHidden]_vars

(***************************************************************************)
(* Events: two buttons that can be dragged, driven by the host             *)
(***************************************************************************)
EvMorphs == {"M1", "M2"}

EvPosition == [M1 |-> <<0, 0>>, M2 |-> <<4, 0>>, M3 |-> <<8, 0>>]

Pointers == {<<1, 1>>, <<5, 1>>, <<9, 1>>}

Buttons == { <<"LEFTMOUSE", "PRESS">>, <<"LEFTMOUSE", "RELEASE">>,
             <<"RIGHTMOUSE", "PRESS">>, <<"RIGHTMOUSE", "RELEASE">>,
             <<"MOUSEMOVE", "NOTHING">> }

Event(b, p) == [type |-> b[1], value |-> b[2], mouse_region_x |-> p[1], mouse_region_y |-> p[2]]

Areas == {<<12, 12>>}

Viewports == {<<0, 0, 12, 12>>, <<6, 0, 12, 12>>}

\* The trees a program builds before its event loop starts: M1 and M2 side
\* by side under W1, or M2 inside M1 under W1.
Scripts == { << <<"W1", "M1">>, <<"W1", "M2">> >>,
             << <<"W1", "M1">>, <<"M1", "M2">> >> }

RECURSIVE Build(_, _, _)
Build(ms, script, i) ==
    IF i > Len(script) THEN ms
    ELSE Build(add_morph(ms, script[i][1], script[i][2]).m, script, i + 1)

InitEvent ==
    /\ \E nm \in {"noname", "b"}, script \in Scripts :
         morph = Build([n \in Nodes |->
                          IF n \in Worlds THEN NewWorldMorph(1)
                          ELSE NewMorph("ButtonMorph", 4, 4, EvPosition[n],
                                        IF n = "M2" THEN nm ELSE "noname", 1, TRUE, FALSE, FALSE)],
                       script, 1)
    /\ wld = [w \in Worlds |-> NewWorld(TRUE)]
    /\ last = Last("init", None, None, None, NoError, <<>>)
    /\ count = [events |-> 0, draws |-> 0, sets |-> 0]

NextEvent ==
    \/ \E p \in Worlds \cup EvMorphs, c \in EvMorphs : AddMorph(p, c)
    \/ \E w \in Worlds, b \in Buttons, p \in Pointers, a \in Areas :
          OnEvent(w, Event(b, p), <<0, 0>>, a)
    \/ \E w \in Worlds, a \in Areas :
          OnEvent(w, Event(<<"MOUSEMOVE", "NOTHING">>, <<1, 1>>), <<>>, a)
    \/ \E w \in Worlds, v \in Viewports, e \in BOOLEAN : Draw(w, v, e)

SpecEvent == InitEvent /\ [][NextEvent]_vars

(***************************************************************************)
(* Hit testing: one morph under W1, its geometry drawn from small sets     *)
(***************************************************************************)
HitScales == {1, 2}
HitPositions == {<<0, 0>>, <<2, 1>>}
HitSizes == {<<4, 4>>, <<6, 2>>}
HitPointers == {<<x, y>> : x \in 0 .. 6, y \in 0 .. 4}

InitHit ==
    /\ \E sc \in HitScales, pos \in HitPositions, sz \in HitSizes, circle \in BOOLEAN :
         morph = Build([n \in Nodes |->
                          IF n \in Worlds THEN NewWorldMorph(1)
                          ELSE NewMorph("Morph", sz[1], sz[2], pos, "noname", sc, FALSE, circle, FALSE)],
                       << <<"W1", "M1">> >>, 1)
    /\ wld = [w \in Worlds |-> NewWorld(TRUE)]
    /\ last = Last("init", None, None, None, NoError, <<>>)
    /\ count = [events |-> 0, draws |-> 0, sets |-> 0]

NextHit ==
    \/ \E p \in HitPointers, a \in Areas :
          OnEvent("W1", Event(<<"MOUSEMOVE", "NOTHING">>, p), <<0, 0>>, a)
    \/ \E v \in Viewports, e \in BOOLEAN : Draw("W1", v, e)
    \/ MouseOverMorph("M1")

SpecHit == InitHit /\ [][NextHit]_vars

(***************************************************************************)
(* Geometry of a tree under one root: morphs of different size, position   *)
(* and scale, the root constructed with scale 1 or 2                       *)
(***************************************************************************)
GeomMorphs == {"M1", "M2"}
GeomNodes == {"W1"} \cup GeomMorphs
GeomPosition == [M1 |-> <<1, 1>>, M2 |-> <<-2, 3>>, M3 |-> <<5, -1>>]
GeomSize == [M1 |-> <<4, 4>>, M2 |-> <<6, 2>>, M3 |-> <<2, 6>>]
GeomScale == [M1 |-> 2, M2 |-> 1, M3 |-> 3]
RootScales == {1, 2}

NewGeomMorph(n) ==
    NewMorph("Morph", GeomSize[n][1], GeomSize[n][2], GeomPosition[n], "noname", GeomScale[n],
             FALSE, FALSE, FALSE)

InitGeom ==
    /\ \E rs \in RootScales :
         morph = [n \in Nodes |-> IF n \in Worlds THEN NewWorldMorph(rs) ELSE NewGeomMorph(n)]
    /\ wld = [w \in Worlds |-> NewWorld(TRUE)]
    /\ last = Last("init", None, None, None, NoError, <<>>)
    /\ count = [events |-> 0, draws |-> 0, sets |-> 0]

\* The program calls n.get_absolute_scale().
GetAbsoluteScale(n) ==
    /\ LET r == get_absolute_scale(morph, n)
       IN  last' = Last("get_absolute_scale", n, None, r.val, r.err, <<>>)
    /\ UNCHANGED <<morph, wld, count>>

\* The program reads n.world_position.
WorldPosition(n) ==
    /\ LET r == world_position(morph, n)
       IN  last' = Last("world_position", n, None, r.val, r.err, <<>>)
    /\ UNCHANGED <<morph, wld, count>>

NextGeom ==
    \/ \E p \in GeomNodes, c \in GeomMorphs : AddMorph(p, c)
    \/ \E n \in GeomNodes : GetAbsoluteScale(n)
    \/ \E n \in GeomNodes : WorldPosition(n)

SpecGeom == InitGeom /\ [][NextGeom]_vars

(***************************************************************************)
(* The size and position setters, on trees built before                    *)
(***************************************************************************)

\* Morph.width (setter) assigning before it tests the value.
width_set_unchecked(ms, n, value) ==
    LET scaled(m1, s) ==
            IF value < 0 THEN [m |-> m1, err |-> "ValueError"]
            ELSE IF s.err # NoError THEN [m |-> m1, err |-> s.err]
            ELSE [m |-> [m1 EXCEPT ![n]._width = value * s.val], err |-> NoError]
        assigned(m1) == scaled(m1, get_absolute_scale(m1, n))
    IN  assigned([ms EXCEPT ![n].real_width = value])

\* Morph.width (setter), as [m, err].
width_set(ms, n, value) ==
    IF value < 0 THEN [m |-> ms, err |-> "ValueError"]
    ELSE LET scaled(m1, s) ==
                 IF s.err # NoError THEN [m |-> m1, err |-> s.err]
                 ELSE [m |-> [m1 EXCEPT ![n]._width = value * s.val], err |-> NoError]
             assigned(m1) == scaled(m1, get_absolute_scale(m1, n))
         IN  assigned([ms EXCEPT ![n].real_width = value])

\* Morph.height (setter), as [m, err].
height_set(ms, n, value) ==
    IF value < 0 THEN [m |-> ms, err |-> "ValueError"]
    ELSE LET scaled(m1, s) ==
                 IF s.err # NoError THEN [m |-> m1, err |-> s.err]
                 ELSE [m |-> [m1 EXCEPT ![n]._height = value * s.val], err |-> NoError]
             assigned(m1) == scaled(m1, get_absolute_scale(m1, n))
         IN  assigned([ms EXCEPT ![n].real_height = value])

\* Morph.position (getter)
position_get(ms, n) == ms[n].real_position

\* The program assigns n.width = value.
SetWidth(n, value) ==
    /\ count.sets < MaxSets
    /\ LET returned(r) ==
               /\ morph' = r.m
               /\ last' = Last("width", n, value, None, r.err, <<>>)
       IN  returned(width_set(morph, n, value))
    /\ count' = [count EXCEPT !.sets = @ + 1]
    /\ UNCHANGED wld

\* The program assigns n.height = value.
SetHeight(n, value) ==
    /\ count.sets < MaxSets
    /\ LET returned(r) ==
               /\ morph' = r.m
               /\ last' = Last("height", n, value, None, r.err, <<>>)
       IN  returned(height_set(morph, n, value))
    /\ count' = [count EXCEPT !.sets = @ + 1]
    /\ UNCHANGED wld

\* The program assigns n.position = value and reads n.position.
SetPosition(n, value) ==
    /\ count.sets < MaxSets
    /\ LET returned(r) ==
               /\ morph' = r.m
               /\ last' = Last("position", n, value, position_get(r.m, n), r.err, <<>>)
       IN  returned(position_set(morph, n, value))
    /\ count' = [count EXCEPT !.sets = @ + 1]
    /\ UNCHANGED wld

SetValues == {-1, 0, 3}
SetPositions == {<<-1, 2>>, <<3, 0>>}

\* The trees the setters are used on: M2 inside M1 under W1, M2 inside a
\* detached M1, and M1 made its own parent.
GeomScripts == { << <<"W1", "M1">>, <<"M1", "M2">> >>,
                 << <<"M1", "M2">> >>,
                 << <<"M1", "M1">> >> }

InitSet ==
    /\ \E rs \in RootScales, script \in GeomScripts :
         morph = Build([n \in Nodes |-> IF n \in Worlds THEN NewWorldMorph(rs)
                                        ELSE NewGeomMorph(n)],
                       script, 1)
    /\ wld = [w \in Worlds |-> NewWorld(TRUE)]
    /\ last = Last("init", None, None, None, NoError, <<>>)
    /\ count = [events |-> 0, draws |-> 0, sets |-> 0]

NextSet ==
    \/ \E n \in GeomNodes, v \in SetValues : SetWidth(n, v)
    \/ \E n \in GeomNodes, v \in SetValues : SetHeight(n, v)
    \/ \E n \in GeomNodes, p \in SetPositions : SetPosition(n, p)

SpecSet == InitSet /\ [][NextSet]_vars

(***************************************************************************)
(* A drag under way: A = M1 at (0, 0) and B = M2 at (25, 0), both 20 by 20 *)
(* and drag-enabled, side by side under W1; the pointer has moved to       *)
(* (10, 10), a frame was drawn and the left button pressed on A            *)
(***************************************************************************)
DragPosition == [M1 |-> <<0, 0>>, M2 |-> <<25, 0>>, M3 |-> <<0, 50>>]
DragPointers == {<<10, 10>>, <<32, 10>>, <<40, 10>>, <<60, 10>>}
DragButtons == {<<"MOUSEMOVE", "NOTHING">>, <<"LEFTMOUSE", "RELEASE">>}
DragArea == <<100, 100>>
DragViewports == {<<0, 0, 100, 100>>, <<20, 0, 100, 100>>}

Pressed(ms, ws) ==
    world_on_event(
        world_draw(
            world_on_event(St(ms, ws), "W1", Event(<<"MOUSEMOVE", "NOTHING">>, <<10, 10>>),
                           <<0, 0>>, DragArea),
            "W1", <<0, 0, 100, 100>>, TRUE),
        "W1", Event(<<"LEFTMOUSE", "PRESS">>, <<10, 10>>), <<0, 0>>, DragArea)

InitDrag ==
    /\ \E nm \in {"noname", "b"}, hidden \in BOOLEAN :
         LET ms == Build([n \in Nodes |->
                            IF n \in Worlds THEN NewWorldMorph(1)
                            ELSE [NewMorph("ButtonMorph", 20, 20, DragPosition[n],
                                           IF n = "M2" THEN nm ELSE "noname", 1, TRUE, FALSE, FALSE)
                                    EXCEPT !._is_hidden = (n = "M2" /\ hidden)]],
                         << <<"W1", "M1">>, <<"W1", "M2">> >>, 1)
             ws == [w \in Worlds |-> NewWorld(TRUE)]
         IN  /\ morph = Pressed(ms, ws).m
             /\ wld = Pressed(ms, ws).w
    /\ last = Last("init", None, None, None, NoError, <<>>)
    /\ count = [events |-> 0, draws |-> 0, sets |-> 0]

NextDrag ==
    \/ \E b \in DragButtons, p \in DragPointers : OnEvent("W1", Event(b, p), <<0, 0>>, DragArea)
    \/ \E v \in DragViewports, e \in BOOLEAN : Draw("W1", v, e)

SpecDrag == InitDrag /\ [][NextDrag]_vars

(***************************************************************************)
(* The clamp of a drag step: the same drag under way, in a viewport larger *)
(* than A, in one smaller than A, and in the 100 by 100 the code assumes   *)
(* when the viewport cannot be read                                        *)
(***************************************************************************)
ClampPointers == {<<2, 10>>, <<10, 2>>, <<40, 10>>, <<95, 95>>}
ClampAreas == {<<100, 100>>, <<12, 30>>, <<24, 16>>}

NextClamp ==
    \/ \E p \in ClampPointers, a \in ClampAreas :
          OnEvent("W1", Event(<<"MOUSEMOVE", "NOTHING">>, p), <<0, 0>>, a)
    \/ \E v \in DragViewports, e \in BOOLEAN : Draw("W1", v, e)

SpecClamp == InitDrag /\ [][NextClamp]_vars

(***************************************************************************)
(* Frames: W1 with M1 and M2 side by side, the program free to assign      *)
(* auto_hide, the host sending pointer moves and asking for frames         *)
(***************************************************************************)

\* The program assigns w.auto_hide = value.
SetAutoHide(w, value) ==
    /\ count.sets < MaxSets
    /\ wld' = [wld EXCEPT ![w].auto_hide = value]
    /\ last' = Last("auto_hide", w, value, None, NoError, <<>>)
    /\ count' = [count EXCEPT !.sets = @ + 1]
    /\ UNCHANGED morph

FramePointers == {<<1, 1>>, <<9, 1>>}

InitFrame ==
    /\ \E hidden \in BOOLEAN :
         morph = Build([n \in Nodes |->
                          IF n \in Worlds THEN NewWorldMorph(1)
                          ELSE [NewMorph("ButtonMorph", 4, 4, EvPosition[n], "noname", 1,
                                         TRUE, FALSE, FALSE)
                                  EXCEPT !._is_hidden = (n = "M2" /\ hidden)]],
                       << <<"W1", "M1">>, <<"W1", "M2">> >>, 1)
    /\ wld = [w \in Worlds |-> NewWorld(TRUE)]
    /\ last = Last("init", None, None, None, NoError, <<>>)
    /\ count = [events |-> 0, draws |-> 0, sets |-> 0]

NextFrame ==
    \/ \E v \in BOOLEAN : SetAutoHide("W1", v)
    \/ \E b \in Buttons, p \in FramePointers, a \in Areas : OnEvent("W1", Event(b, p), <<0, 0>>, a)
    \/ \E v \in Viewports, e \in BOOLEAN : Draw("W1", v, e)

SpecFrame == InitFrame /\ [][NextFrame]_vars

(***************************************************************************)
(* Textures and delete: M2 inside M1 under W1, textures loaded or not      *)
(***************************************************************************)

\* Morph.load_texture followed by activate_texture: the image loaded, the
\* table entry made, the morph's scale replaced by the scale given.
load_texture(ms, n, name, scale) ==
    [ms EXCEPT ![n].image = name, ![n].textures = @ \cup {name}, ![n].scale = scale]

\* Morph.delete, as [m, err], child i of n onwards and then n itself: the
\* children deleted first; then the image released and the texture table
\* cleared, which for a morph without an image fails on None and is passed
\* over by the bare except.
RECURSIVE delete(_, _, _, _)
delete(ms, n, i, fuel) ==
    IF fuel = 0 THEN [m |-> ms, err |-> "RecursionError"]
    ELSE IF i <= Len(ms[n].children)
    THEN LET next(r) == IF r.err # NoError THEN r ELSE delete(r.m, n, i + 1, fuel)
         IN  next(delete(ms, ms[n].children[i], 1, fuel - 1))
    ELSE IF ms[n].image = None THEN [m |-> ms, err |-> NoError]
    ELSE [m |-> [ms EXCEPT ![n].textures = {}], err |-> NoError]

\* The program calls n.delete().
Delete(n) ==
    /\ LET returned(r) ==
               /\ morph' = r.m
               /\ last' = Last("delete", n, None, None, r.err, <<>>)
       IN  returned(delete(morph, n, 1, RecursionLimit))
    /\ UNCHANGED <<wld, count>>

InitDelete ==
    /\ \E textured \in SUBSET {"M1", "M2"} :
         LET built == Build([n \in Nodes |->
                               IF n \in Worlds THEN NewWorldMorph(1)
                               ELSE NewMorph("ButtonMorph", 4, 4, EvPosition[n], "noname", 1,
                                             TRUE, FALSE, FALSE)],
                            << <<"W1", "M1">>, <<"M1", "M2">> >>, 1)
         IN  morph = [n \in Nodes |-> IF n \in textured
                                      THEN load_texture(built, n, "png", 1)[n]
                                      ELSE built[n]]
    /\ wld = [w \in Worlds |-> NewWorld(TRUE)]
    /\ last = Last("init", None, None, None, NoError, <<>>)
    /\ count = [events |-> 0, draws |-> 0, sets |-> 0]

NextDelete ==
    \/ \E n \in EvMorphs : Delete(n)
    \/ \E b \in Buttons, p \in Pointers, a \in Areas : OnEvent("W1", Event(b, p), <<0, 0>>, a)
    \/ \E v \in Viewports, e \in BOOLEAN : Draw("W1", v, e)

SpecDelete == InitDelete /\ [][NextDelete]_vars

(***************************************************************************)
(* Handlers: the button M1 and the plain morph M2 side by side under W1,   *)
(* M2 made to handle events by the program but not drag-enabled, actions   *)
(* bound to both or not                                                    *)
(***************************************************************************)
HandlerNames == {"on_left_click", "on_left_click_released", "on_right_click",
                 "on_right_click_released", "on_mouse_in", "on_mouse_out"}

\* The on_*_action attributes the program assigns before its event loop.
Bindings == { {}, HandlerNames, {"on_left_click", "on_mouse_out"} }

\* The color the program gives the button, in tenths.
ButtonColor == <<2, 5, 7, 3>>

InitHandlers ==
    /\ \E acts \in Bindings, glow \in BOOLEAN :
         morph = Build([n \in Nodes |->
                          IF n \in Worlds THEN NewWorldMorph(1)
                          ELSE IF n = "M1"
                          THEN [NewMorph("ButtonMorph", 4, 4, EvPosition[n], "noname", 1,
                                         TRUE, FALSE, glow)
                                  EXCEPT !.actions = acts, !.color = ButtonColor]
                          ELSE [NewMorph("Morph", 4, 4, EvPosition[n], "noname", 1,
                                         FALSE, FALSE, FALSE)
                                  EXCEPT !.actions = acts, !.handles_events = TRUE,
                                         !.handles_mouse_down = TRUE,
                                         !.handles_mouse_over = TRUE]],
                       << <<"W1", "M1">>, <<"W1", "M2">> >>, 1)
    /\ wld = [w \in Worlds |-> NewWorld(TRUE)]
    /\ last = Last("init", None, None, None, NoError, <<>>)
    /\ count = [events |-> 0, draws |-> 0, sets |-> 0]

NextHandlers ==
    \/ \E b \in Buttons, p \in Pointers, a \in Areas : OnEvent("W1", Event(b, p), <<0, 0>>, a)
    \/ \E v \in Viewports, e \in BOOLEAN : Draw("W1", v, e)

SpecHandlers == InitHandlers /\ [][NextHandlers]_vars

(***************************************************************************)
(* Hiding and events: the button M1 under W1, the button M2 attached by    *)
(* the program under W1 or inside M1, is_hidden assigned at any time       *)
(***************************************************************************)
InitShown ==
    /\ morph = Build([n \in Nodes |->
                        IF n \in Worlds THEN NewWorldMorph(1)
                        ELSE NewMorph("ButtonMorph", 4, 4, EvPosition[n], "noname", 1,
                                      TRUE, FALSE, FALSE)],
                     << <<"W1", "M1">> >>, 1)
    /\ wld = [w \in Worlds |-> NewWorld(TRUE)]
    /\ last = Last("init", None, None, None, NoError, <<>>)
    /\ count = [events |-> 0, draws |-> 0, sets |-> 0]

NextShown ==
    \/ \E p \in {"W1", "M1"} : AddMorph(p, "M2")
    \/ \E n \in EvMorphs, v \in BOOLEAN : SetHidden(n, v)
    \/ \E b \in Buttons, p \in Pointers, a \in Areas : OnEvent("W1", Event(b, p), <<0, 0>>, a)
    \/ \E v \in Viewports, e \in BOOLEAN : Draw("W1", v, e)

SpecShown == InitShown /\ [][NextShown]_vars

(***************************************************************************)
(* The policy given at construction: W1 = World(auto_hide=False) with M1   *)
(* and M2 side by side, the host sending events and asking for frames      *)
(***************************************************************************)
InitPolicy ==
    /\ \E hidden \in BOOLEAN :
         morph = Build([n \in Nodes |->
                          IF n \in Worlds THEN NewWorldMorph(1)
                          ELSE [NewMorph("ButtonMorph", 4, 4, EvPosition[n], "noname", 1,
                                         TRUE, FALSE, FALSE)
                                  EXCEPT !._is_hidden = (n = "M2" /\ hidden)]],
                       << <<"W1", "M1">>, <<"W1", "M2">> >>, 1)
    /\ wld = [w \in Worlds |-> NewWorld(FALSE)]
    /\ last = Last("init", None, None, None, NoError, <<>>)
    /\ count = [events |-> 0, draws |-> 0, sets |-> 0]

NextPolicy ==
    \/ \E b \in Buttons, p \in Pointers, a \in Areas : OnEvent("W1", Event(b, p), <<0, 0>>, a)
    \/ \E v \in Viewports, e \in BOOLEAN : Draw("W1", v, e)

SpecPolicy == InitPolicy /\ [][NextPolicy]_vars

(***************************************************************************)
(* Tree vocabulary of the claims                                           *)
(***************************************************************************)
ChildSet(ms, n) == {ms[n].children[i] : i \in DOMAIN ms[n].children}

\* The widgets below n: the least set closed under "child of".
RECURSIVE DescendantsFrom(_, _, _)
DescendantsFrom(ms, S, k) ==
    LET T == S \cup UNION {ChildSet(ms, x) : x \in S}
    IN  IF k = 0 \/ T = S THEN S ELSE DescendantsFrom(ms, T, k - 1)

Descendants(ms, n) == DescendantsFrom(ms, ChildSet(ms, n), Cardinality(Nodes))

\* How many times m stands in the children list of p, and in all lists.
OccurrencesIn(ms, p, m) == Cardinality({i \in DOMAIN ms[p].children : ms[p].children[i] = m})

Owners(ms, m) == {p \in Nodes : OccurrencesIn(ms, p, m) > 0}

SingleOwner(ms) ==
    \A m \in Morphs :
        (ms[m]._parent # None \/ Owners(ms, m) # {}) =>
            /\ Owners(ms, m) = {ms[m]._parent}
            /\ OccurrencesIn(ms, ms[m]._parent, m) = 1

\* Following _parent from n ends at a widget without a parent.
RECURSIVE ReachesTop(_, _, _)
ReachesTop(ms, n, k) ==
    IF ms[n]._parent = None THEN TRUE
    ELSE IF k = 0 THEN FALSE
    ELSE ReachesTop(ms, ms[n]._parent, k - 1)

\* The first widget named nm below n, depth first, children in list order.
RECURSIVE DfsFirst(_, _, _, _, _)
DfsFirst(ms, n, i, nm, fuel) ==
    IF fuel = 0 \/ i > Len(ms[n].children) THEN None
    ELSE LET c == ms[n].children[i]
         IN  IF ms[c]._name = nm THEN c
             ELSE LET r == DfsFirst(ms, c, 1, nm, fuel - 1)
                  IN  IF r # None THEN r ELSE DfsFirst(ms, n, i + 1, nm, fuel)

(***************************************************************************)
(* Claims                                                                  *)
(***************************************************************************)

\* C6: a successful add_morph keeps every attached widget in the children
\* list of exactly one widget, exactly once, that widget being its parent
\* (the claim as stated; the code never removes a child from a list).
C6_SingleOwnerKept ==
    [][(last'.op = "add_morph" /\ last'.raised = NoError /\ SingleOwner(morph))
          => SingleOwner(morph')]_vars

\* C7: after any add_morph calls the parent references are acyclic: from
\* every widget they lead to a widget without a parent (the claim as
\* stated; add_morph accepts the widget itself and its descendants).
C7_ParentChainEnds == \A n \in Nodes : ReachesTop(morph, n, Cardinality(Nodes))

\* C8: right after is_hidden = v on w, w and every descendant of w have
\* is_hidden = v (the claim as stated; the setter skips a child whose own
\* flag already equals v, and with it that child's subtree).
C8_HiddenCascades ==
    (last.op = "is_hidden" /\ last.raised = NoError) =>
        \A d \in {last.self} \cup Descendants(morph, last.self) :
            morph[d]._is_hidden = last.arg

\* C9: get_child_morph_named returns the first widget of that name in the
\* receiver's subtree, depth first, at any depth, and none only when no
\* descendant has the name (the claim as stated; the code drops what the
\* recursive call returns).
C9_FindsFirstDepthFirst ==
    (last.op = "get_child_morph_named" /\ last.raised = NoError) =>
        last.ret = DfsFirst(morph, last.self, 1, last.arg, RecursionLimit)

ClickHandlers == {"on_left_click", "on_left_click_released", "on_right_click",
                  "on_right_click_released"}

\* The widgets whose click handler the last operation invoked.
ClickHandled == {last.calls[i][1] : i \in {j \in DOMAIN last.calls : last.calls[j][2] \in ClickHandlers}}

\* The Worlds whose consumed_event the last operation set.
ConsumedIn == {last.calls[i][3] : i \in {j \in DOMAIN last.calls : last.calls[j][2] = "consumed_event"}}

\* C1: within one dispatch started by World.on_event at most one widget's
\* click handler is invoked (the claim as stated; a widget whose cached
\* world is another World, see C20, tests and sets that World's flag).
C1_OneClickHandlerPerDispatch ==
    (last.op = "on_event" /\ last.raised = NoError) => Cardinality(ClickHandled) <= 1

\* C2: after every call of World.on_event, whatever the context,
\* consumed_event is true only if a widget consumed the event of this call
\* (the claim as stated; with context.region None the method returns before
\* the reset).
C2_ConsumedOnlyByThisCall ==
    (last.op = "on_event" /\ last.raised = NoError) =>
        (wld[last.self].consumed_event => last.self \in ConsumedIn)

\* The rectangle of n at its position overlaps the rectangle of s.
Overlaps(ms, n, s) ==
    LET ps == position_scaled(ms, s)
    IN  /\ ps.err = NoError
        /\ collisionDetect(ms[n].real_position[1], ms[n].real_position[2], ps.val[1], ps.val[2],
                           ms[n]._width, ms[n]._height, ms[s]._width, ms[s]._height)

\* C3: a pointer-move step that moves a dragged widget never leaves it on a
\* position where its rectangle overlaps another non-hidden widget under the
\* same root (the claim as stated; the code tells the dragged widget from
\* the others by name, so a widget of the same name is never tested).
C3_DragNeverCommitsOverlap ==
    [][(last'.op = "on_event" /\ last'.raised = NoError /\ last'.arg.event.type = "MOUSEMOVE") =>
          \A n \in Morphs :
              (morph[n].drag_drop /\ morph'[n].real_position # morph[n].real_position
                 /\ morph'[n]._world # None) =>
                  \A s \in ChildSet(morph', morph'[n]._world) \ {n} :
                      ~ morph'[s]._is_hidden => ~ Overlaps(morph', n, s)]_vars

\* C4: after the dispatch of a left-button release no widget below the
\* dispatching root that was dragging is still dragging, wherever the
\* pointer is (the claim as stated; the release reaches a widget only when
\* the pointer is over it and no other widget consumed the event).
C4_ReleaseEndsDrag ==
    [][(last'.op = "on_event" /\ last'.raised = NoError /\ last'.arg.region # <<>>
          /\ last'.arg.event.type = "LEFTMOUSE" /\ last'.arg.event.value = "RELEASE") =>
          \A n \in Descendants(morph, last'.self) : morph[n].drag_drop => ~ morph'[n].drag_drop]_vars

\* The pointer is outside the closed rectangle of the viewport.
PointerOutside(p, v) ==
    \/ p[1] < v[1]
    \/ p[1] > v[1] + v[3]
    \/ p[2] < v[2]
    \/ p[2] > v[2] + v[4]

\* C5: after a World.draw with the absolute pointer position outside the
\* viewport, no widget below that World is dragging (the claim as stated;
\* a World that has not yet received an event skips the whole pass).
C5_NoDragOutsideViewport ==
    (last.op = "draw" /\ last.raised = NoError
       /\ PointerOutside(wld[last.self].mouse_position_absolute, last.arg.viewport)) =>
        \A n \in Descendants(morph, last.self) : ~ morph[n].drag_drop

\* C10: for a Rectangle morph, mouse_over_morph is true iff the absolute
\* pointer position lies strictly inside the rectangle from
\* absolute_position to absolute_position plus the base size times the
\* effective scale, for every scale (the claim as stated; the code measures
\* the rectangle with the unscaled width and height).
C10_RectangleHitTest ==
    (last.op = "mouse_over_morph" /\ last.raised = NoError /\ ~ morph[last.self].circle) =>
        LET n  == last.self
            w  == morph[n]._world
            ap == absolute_position(morph, wld, n, w).val
            sc == get_absolute_scale(morph, n).val
            e  == wld[w].mouse_position_absolute
        IN  last.ret = (/\ e[1] > ap[1]
                        /\ e[1] < ap[1] + morph[n].real_width * sc
                        /\ e[2] > ap[2]
                        /\ e[2] < ap[2] + morph[n].real_height * sc)

(***************************************************************************)
(* Geometry vocabulary of the claims                                       *)
(***************************************************************************)
\* The top of n's parent chain (n itself when the chain does not end).
RECURSIVE TopOf(_, _, _)
TopOf(ms, n, k) ==
    IF ms[n]._parent = None \/ k = 0 THEN n ELSE TopOf(ms, ms[n]._parent, k - 1)

\* The scaled positions summed along the parent chain of n, the viewport
\* origin of its root included: where the program places n in the host window.
RECURSIVE PlacedAt(_, _, _, _)
PlacedAt(ms, ws, n, k) ==
    IF n \in Worlds
    THEN << ms[n].real_position[1] + ws[n].draw_area_position[1],
            ms[n].real_position[2] + ws[n].draw_area_position[2] >>
    ELSE IF ms[n]._parent = None \/ k = 0 THEN ms[n]._position
    ELSE LET p == PlacedAt(ms, ws, ms[n]._parent, k - 1)
         IN  << p[1] + ms[n]._position[1], p[2] + ms[n]._position[2] >>

\* Four times the squared distance from the pointer e to the centre of the
\* circle of diameter d placed at ap (centre: ap plus d / 2 on both axes).
FourSquaredDistance(ap, d, e) ==
    (2 * ap[1] + d - 2 * e[1]) * (2 * ap[1] + d - 2 * e[1])
      + (2 * ap[2] + d - 2 * e[2]) * (2 * ap[2] + d - 2 * e[2])

\* C11: for a Circle morph, mouse_over_morph is true iff the distance from
\* the absolute pointer position to the centre (the morph's absolute
\* position plus the radius on both axes) is at most the radius, half the
\* scaled width; a pointer at exactly that distance is over the morph.
C11_CircleHitTest ==
    (last.op = "mouse_over_morph" /\ last.raised = NoError /\ morph[last.self].circle) =>
        LET n == last.self
            d == morph[n]._width
            e == wld[morph[n]._world].mouse_position_absolute
        IN  last.ret =
              (FourSquaredDistance(PlacedAt(morph, wld, n, Cardinality(Nodes)), d, e) <= d * d)

\* C11 witness: the hit test of a circle answered True for a pointer whose
\* distance from the centre is exactly the radius.
C11_Witness ==
    /\ last.op = "mouse_over_morph" /\ last.raised = NoError /\ morph[last.self].circle
    /\ last.ret = TRUE
    /\ LET n == last.self
           d == morph[n]._width
       IN  FourSquaredDistance(PlacedAt(morph, wld, n, Cardinality(Nodes)), d,
                               wld[morph[n]._world].mouse_position_absolute) = d * d

\* C12: get_absolute_scale of a widget with a parent is its own scale times
\* get_absolute_scale of the parent, and of the root it is 1 whatever scale
\* the root was constructed with (the claim as stated; the code returns the
\* root's own scale).
C12_ScaleProductFromIdentity ==
    (last.op = "get_absolute_scale" /\ last.raised = NoError) =>
        LET n == last.self
        IN  /\ morph[n]._parent # None =>
                 last.ret = morph[n].scale * get_absolute_scale(morph, morph[n]._parent).val
            /\ n \in Worlds => last.ret = 1

\* C13: world_position of a widget with a parent is its position plus the
\* world_position of the parent, on both axes; of a widget without a parent
\* it is (0, 0), whatever its position.
C13_WorldPositionSum ==
    (last.op = "world_position" /\ last.raised = NoError) =>
        LET n == last.self
            p == morph[n]._parent
        IN  IF p = None THEN last.ret = <<0, 0>>
            ELSE LET pw == world_position(morph, p).val
                 IN  last.ret = << morph[n].real_position[1] + pw[1],
                                   morph[n].real_position[2] + pw[2] >>

\* C13 witness: world_position was read of a widget whose parent has no
\* parent and is not at (0, 0), and is the widget's own position.
C13_Witness ==
    /\ last.op = "world_position" /\ last.raised = NoError
    /\ LET n == last.self
           p == morph[n]._parent
       IN  /\ p # None
           /\ morph[p]._parent = None
           /\ morph[p].real_position # <<0, 0>>
           /\ last.ret = morph[n].real_position

\* The box a contains the box b (boxes as [min_x, min_y, max_x, max_y]).
Covers(a, b) == a[1] <= b[1] /\ a[2] <= b[2] /\ a[3] >= b[3] /\ a[4] >= b[4]

\* C14: after p.add_morph(c) has returned, p.bounds covers c.bounds and what
\* p.bounds was before the call; no add_morph shrinks the bounds of any
\* widget.
C14_BoundsGrowOnAttach ==
    [][last'.op = "add_morph" =>
         /\ \A n \in Nodes : Covers(morph'[n].bounds, morph[n].bounds)
         /\ last'.raised = NoError =>
              /\ Covers(morph'[last'.self].bounds, morph'[last'.arg].bounds)
              /\ Covers(morph'[last'.self].bounds, morph[last'.self].bounds)]_vars

\* C14 witness: an add_morph that returned has grown the bounds of the
\* parent beyond the box the parent was constructed with, on the lower side.
C14_Witness ==
    /\ last.op = "add_morph" /\ last.raised = NoError
    /\ last.self \in Morphs
    /\ morph[last.self].bounds[1] < GeomPosition[last.self][1]
    /\ Covers(morph[last.self].bounds, morph[last.arg].bounds)

\* C15: width = v and height = v with v < 0 raise ValueError and leave the
\* widget as it was (the base size and the cached scaled size included);
\* with v >= 0 the base width, or height, becomes v.
C15_NegativeSizeRejected ==
    [][/\ last'.op = "width" =>
            IF last'.arg < 0
            THEN last'.raised = "ValueError" /\ morph' = morph
            ELSE morph'[last'.self].real_width = last'.arg
       /\ last'.op = "height" =>
            IF last'.arg < 0
            THEN last'.raised = "ValueError" /\ morph' = morph
            ELSE morph'[last'.self].real_height = last'.arg]_vars

\* C15 witness: a negative width was just refused on a widget whose width
\* had been changed before, and that width is still there.
C15_Witness ==
    /\ last.op = "width" /\ last.arg < 0 /\ last.raised = "ValueError"
    /\ last.self \in Morphs
    /\ morph[last.self].real_width = 3
    /\ get_absolute_scale(morph, last.self).err = NoError
    /\ morph[last.self]._width = 3 * get_absolute_scale(morph, last.self).val

\* C16: after position = p the position getter returns p, for every p
\* (negative coordinates included), whatever the scale and the parent chain
\* of the widget.
C16_PositionRoundTrip ==
    last.op = "position" => last.ret = last.arg

\* C16 witness: a position with a negative coordinate was assigned to, and
\* read back from, a widget with a parent and an effective scale above 1.
C16_Witness ==
    /\ last.op = "position" /\ last.raised = NoError
    /\ last.arg[1] < 0
    /\ morph[last.self]._parent # None
    /\ get_absolute_scale(morph, last.self).err = NoError
    /\ get_absolute_scale(morph, last.self).val > 1
    /\ last.ret = last.arg
    /\ morph[last.self]._position # last.arg

\* The position a drag step of n tries: the position plus the pointer's move
\* since the drag anchor (the viewport is large enough not to clamp it).
Candidate(ms, ws, n) ==
    << ms[n].real_position[1] + ws["W1"].mouse_position[1] - ms[n].drag_position[1],
       ms[n].real_position[2] + ws["W1"].mouse_position[2] - ms[n].drag_position[2] >>

\* A pointer move is dispatched to A while A is being dragged from (0, 0),
\* B stands visible at (25, 0), and the move tries (30, 0).
MoveTries30 ==
    /\ last'.op = "on_event" /\ last'.self = "W1" /\ last'.raised = NoError
    /\ last'.arg.event.type = "MOUSEMOVE"
    /\ morph["M1"].drag_drop
    /\ morph["M1"].real_position = <<0, 0>>
    /\ morph["M2"].real_position = <<25, 0>> /\ ~ morph["M2"]._is_hidden
    /\ Candidate(morph, wld, "M1") = <<30, 0>>

PointerInside(p, v) == p[1] > v[1] /\ p[1] < v[1] + v[3] /\ p[2] > v[2] /\ p[2] < v[2] + v[4]

\* The widgets a frame has rendered.
Rendered == {last.calls[i][1] : i \in {j \in DOMAIN last.calls : last.calls[j][2] = "draw"}}

\* C18: World.draw renders all children (each one that is not hidden) when
\* auto_hide is false, wherever the pointer is and whether or not an event
\* has been dispatched; with auto_hide true it renders them iff the pointer
\* is inside the viewport and the viewport is eligible; otherwise it renders
\* no child (the claim as stated; the code renders nothing before the first
\* event).
C18_RenderPolicy ==
    (last.op = "draw" /\ last.raised = NoError) =>
        LET w == last.self
            shown == \/ ~ wld[w].auto_hide
                     \/ /\ PointerInside(wld[w].mouse_position_absolute, last.arg.viewport)
                        /\ last.arg.eligible
        IN  IF shown
            THEN Rendered = {c \in ChildSet(morph, w) : ~ morph[c]._is_hidden}
            ELSE Rendered = {}

\* C19: after World.on_event has run with a region, the absolute pointer
\* position is the event's region coordinates plus the window position, and
\* the viewport-relative pointer position is the absolute position minus the
\* viewport origin (the claim as stated; the code derives the relative
\* position in World.draw only).
C19_PointerDerivedFromEvent ==
    (last.op = "on_event" /\ last.arg.region # <<>>) =>
        LET w == last.self
            ev == last.arg.event
        IN  /\ wld[w].mouse_position_absolute =
                 << ev.mouse_region_x + last.arg.region[1],
                    ev.mouse_region_y + last.arg.region[2] >>
            /\ wld[w].mouse_position =
                 << wld[w].mouse_position_absolute[1] - wld[w].draw_area[1],
                    wld[w].mouse_position_absolute[2] - wld[w].draw_area[2] >>

\* C20: the world of every widget that has a parent is the top of its
\* parent chain (no world when the chain ends at a widget that is not a
\* World), after any sequence of add_morph calls (the claim as stated; the
\* code keeps the world a descendant has cached when its ancestor is
\* attached elsewhere).
C20_WorldIsTopOfChain ==
    \A n \in Morphs :
        (morph[n]._parent # None /\ ReachesTop(morph, n, Cardinality(Nodes))) =>
            LET top == TopOf(morph, n, Cardinality(Nodes))
            IN  world_get(morph, n, RecursionLimit).val = IF top \in Worlds THEN top ELSE None

\* C21: after w.delete(), w and every widget below it have an empty texture
\* table and w is no longer in the children list of its parent (the claim
\* as stated; the code removes no widget from any list).
C21_DeleteRemoves ==
    (last.op = "delete" /\ last.raised = NoError) =>
        /\ \A d \in {last.self} \cup Descendants(morph, last.self) : morph[d].textures = {}
        /\ \A p \in Nodes : last.self \notin ChildSet(morph, p)

\* The last step dispatched a pointer move without an exception.
MoveDispatched ==
    /\ last.op = "on_event"
    /\ last.arg.region # <<>>
    /\ last.arg.event.type = "MOUSEMOVE"
    /\ last.raised = NoError

\* The pointer move of the last step reached n: n is below the World that
\* dispatched, handles events and is not hidden.
MoveReached(n) ==
    /\ MoveDispatched
    /\ n \in Descendants(morph, last.self)
    /\ morph[n].handles_events
    /\ ~ morph[n]._is_hidden

\* The hover handlers the last step ran on n, in order.
HoverCalls(n) ==
    SelectSeq(last.calls, LAMBDA c : c[1] = n /\ c[2] \in {"on_mouse_in", "on_mouse_out"})

\* The pointer is over n, by n's own test.
PointerOver(n) == mouse_over_morph(St(morph, wld), n).val

\* C22: a pointer move that reaches a widget runs exactly one hover handler
\* on it: the mouse-in handler (by default, or the on_mouse_in method of the
\* bound mouse-in action) when the pointer is over the widget, and otherwise
\* the mouse-out handler (by default, or the on_mouse_out method of the bound
\* mouse-out action).
C22_OneHoverHandler ==
    \A n \in Morphs :
        MoveReached(n) =>
            /\ Len(HoverCalls(n)) = 1
            /\ IF PointerOver(n)
               THEN /\ HoverCalls(n)[1][2] = "on_mouse_in"
                    /\ HoverCalls(n)[1][3] \in {None, "on_mouse_in"}
               ELSE /\ HoverCalls(n)[1][2] = "on_mouse_out"
                    /\ HoverCalls(n)[1][3] \in {None, "on_mouse_out"}

\* C23: while hover_glow_mode is on, a pointer move that reaches the button
\* leaves its alpha at 1.0 when the pointer is over it and at 0.5 when it
\* is not, the other channels as they were; while it is off the color is
\* never changed.
C23_HoverGlow ==
    \A n \in Morphs :
        morph[n].cls = "ButtonMorph" =>
            /\ SubSeq(morph[n].color, 1, 3) = SubSeq(ButtonColor, 1, 3)
            /\ ~ morph[n].hover_glow_mode => morph[n].color = ButtonColor
            /\ (morph[n].hover_glow_mode /\ MoveReached(n)) =>
                   morph[n].color[4] = IF PointerOver(n) THEN 10 ELSE 5

\* A pointer move reached a glowing button that the pointer is not over, and
\* another one that it is over had been dispatched before.
C23_Witness ==
    /\ count.events = 2
    /\ MoveReached("M1")
    /\ morph["M1"].hover_glow_mode
    /\ ~ PointerOver("M1")
    /\ morph["M1"].color = <<2, 5, 7, 5>>

\* C27: each of the four click handlers and the two hover handlers, when an
\* action is bound to it, invokes that action (its method of the handler's
\* name) and does not run the default, so that a bound left-click action
\* keeps the press from starting a drag and a bound left-release action
\* keeps the release from ending one; with no action bound the default runs.
C27_BoundActionInvoked ==
    last.op = "on_event" =>
        \A i \in 1 .. Len(last.calls) :
            LET c == last.calls[i]
            IN  c[2] \in HandlerNames =>
                    c[3] = IF c[2] \in morph[c[1]].actions THEN c[2] ELSE None

\* C24: a widget starts dragging only in the dispatch of a left-button press
\* while the pointer is over it, it is drag-enabled and it is not dragging
\* yet, and its drag anchor is then the pointer position of its root; so
\* every dragging widget is drag-enabled.
C24_DragStartsOnPress ==
    [][\A n \in Morphs :
          /\ morph'[n].drag_drop => morph'[n].handles_drag_drop
          /\ (~ morph[n].drag_drop /\ morph'[n].drag_drop) =>
                 /\ last'.op = "on_event"
                 /\ last'.arg.event.type = "LEFTMOUSE"
                 /\ last'.arg.event.value = "PRESS"
                 /\ mouse_over_morph(St(morph', wld'), n).val
                 /\ morph[n].handles_drag_drop
                 /\ morph'[n].drag_position =
                        wld'[world_get(morph', n, RecursionLimit).val].mouse_position]_vars

\* The press just dispatched started the drag of M1, from where the pointer
\* of its root is.
C24_Witness ==
    /\ last.op = "on_event"
    /\ <<"M1", "on_left_click", None>> \in {last.calls[i] : i \in 1 .. Len(last.calls)}
    /\ morph["M1"].drag_drop
    /\ morph["M1"].drag_position = wld["W1"].mouse_position
    /\ morph["M1"].drag_position # <<0, 0>>

\* The step dispatches a pointer move to n while n is being dragged, and the
\* position the move tries overlaps a visible child of W1 named otherwise
\* than n.
DragStepCollides(n) ==
    /\ last'.op = "on_event" /\ last'.self = "W1" /\ last'.raised = NoError
    /\ last'.arg.event.type = "MOUSEMOVE"
    /\ n \in ChildSet(morph, "W1")
    /\ morph[n].drag_drop /\ morph[n].handles_events /\ ~ morph[n]._is_hidden
    /\ \E s \in ChildSet(morph, "W1") :
          /\ morph[s]._name # morph[n]._name
          /\ ~ morph[s]._is_hidden
          /\ position_scaled(morph, s).err = NoError
          /\ collisionDetect(Candidate(morph, wld, n)[1], Candidate(morph, wld, n)[2],
                             position_scaled(morph, s).val[1], position_scaled(morph, s).val[2],
                             morph[n]._width, morph[n]._height,
                             morph[s]._width, morph[s]._height)

\* C25: a pointer move of a drag that is refused because of a collision
\* leaves the widget dragging, at its position, with its drag anchor.
C25_RefusedStepKeepsDrag ==
    [][\A n \in Morphs :
          DragStepCollides(n) =>
              /\ morph'[n].drag_drop
              /\ morph'[n].real_position = morph[n].real_position
              /\ morph'[n]._position = morph[n]._position
              /\ morph'[n].drag_position = morph[n].drag_position]_vars

\* A move of the drag of A has just been refused: the pointer of the root is
\* away from A's anchor, the position it asks for overlaps B, and A has been
\* told that the pointer left it.
C25_Witness ==
    /\ last.op = "on_event" /\ last.raised = NoError
    /\ last.arg.event.type = "MOUSEMOVE"
    /\ morph["M1"].drag_drop
    /\ morph["M1"].drag_position # wld["W1"].mouse_position
    /\ morph["M2"]._name # morph["M1"]._name /\ ~ morph["M2"]._is_hidden
    /\ collisionDetect(Candidate(morph, wld, "M1")[1], Candidate(morph, wld, "M1")[2],
                       morph["M2"]._position[1], morph["M2"]._position[2],
                       morph["M1"]._width, morph["M1"]._height,
                       morph["M2"]._width, morph["M2"]._height)
    /\ Candidate(morph, wld, "M1") # <<30, 0>>
    /\ <<"M1", "on_mouse_out", None>> \in {last.calls[i] : i \in DOMAIN last.calls}

\* The extent a committed coordinate may not pass: the viewport's extent
\* less the widget's scaled extent, or 0 when the widget is the larger.
ClampLimit(extent, scaled) == Max(0, extent - scaled)

\* C26: every position a drag step commits is clamped on each axis: at
\* least 0 and at most the viewport's extent less the widget's scaled
\* extent, or 0 when that is negative.
C26_DragPositionClamped ==
    [][\A n \in Morphs :
          (/\ last'.op = "on_event"
           /\ last'.arg.event.type = "MOUSEMOVE"
           /\ morph[n].drag_drop
           /\ morph'[n].real_position # morph[n].real_position) =>
              \A k \in 1 .. 2 :
                  /\ morph'[n].real_position[k] >= 0
                  /\ morph'[n].real_position[k] <=
                         ClampLimit(last'.arg.area[k],
                                    IF k = 1 THEN morph[n]._width ELSE morph[n]._height)]_vars

\* A drag step has just committed a position that the clamp cut: the
\* pointer asked for more than the viewport leaves, and the widget stands
\* at the limit, which is 0 on the axis where the viewport is the smaller.
C26_Witness ==
    /\ last.op = "on_event" /\ last.raised = NoError
    /\ last.arg.event.type = "MOUSEMOVE"
    /\ last.arg.area = <<24, 16>>
    /\ morph["M1"].drag_drop
    /\ morph["M1"].drag_position = wld["W1"].mouse_position
    /\ morph["M1"].real_position = <<4, 0>>
    /\ wld["W1"].mouse_position[2] > 10

\* C28: in every state the scaled width and height of a widget are its base
\* width and height times its effective scale, also right after it was
\* attached under a scaled parent and before any frame is drawn (the claim
\* as stated; the code computes them at construction, in the size setters
\* and in draw only).
C28_ScaledSizeCurrent ==
    \A n \in Morphs :
        get_absolute_scale(morph, n).err = NoError =>
            /\ morph[n]._width = morph[n].real_width * get_absolute_scale(morph, n).val
            /\ morph[n]._height = morph[n].real_height * get_absolute_scale(morph, n).val

\* C29: the bounds of a widget cover the bounds of every widget attached
\* anywhere below it, also of one attached to a child that was attached
\* before (the claim as stated; the code grows the bounds of the direct
\* parent only).
C29_BoundsCoverSubtree ==
    \A n \in Nodes : \A d \in Descendants(morph, n) : Covers(morph[n].bounds, morph[d].bounds)

\* The nodes a frame of the World in S reaches: the World, and every child
\* that is not hidden of a node reached.
RECURSIVE RenderReach(_, _)
RenderReach(ms, S) ==
    LET T == S \cup {c \in Morphs : ~ ms[c]._is_hidden /\ \E p \in S : c \in ChildSet(ms, p)}
    IN  IF T = S THEN S ELSE RenderReach(ms, T)

\* C30: a widget that a frame skips, hidden itself or below a hidden
\* widget, has no handler invoked and consumes no event in a dispatch (the
\* claim as stated; the code dispatches to the children of a hidden widget
\* and tests the widget's own flag only).
C30_SkippedGetsNoEvent ==
    last.op = "on_event" =>
        \A i \in 1 .. Len(last.calls) : last.calls[i][1] \in RenderReach(morph, {last.self})

\* The order in which a dispatch visits the widgets below n: the children in
\* list order from the i-th on, each one after everything below it.
RECURSIVE DispatchOrder(_, _, _, _)
DispatchOrder(ms, n, i, fuel) ==
    IF fuel = 0 \/ i > Len(ms[n].children) THEN <<>>
    ELSE LET c == ms[n].children[i]
         IN  DispatchOrder(ms, c, 1, fuel - 1) \o <<c>> \o DispatchOrder(ms, n, i + 1, fuel)

\* n may consume a pointer-button event: it is visible, handles events and
\* buttons, and the pointer is over it by its own test.
Eligible(n) ==
    /\ ~ morph[n]._is_hidden
    /\ morph[n].handles_events
    /\ morph[n].handles_mouse_down
    /\ mouse_over_morph(St(morph, wld), n).val

\* The widgets that consumed the event of the last dispatch, in order.
Consumers ==
    LET marks == SelectSeq(last.calls, LAMBDA c : c[2] = "consumed_event")
    IN  [i \in 1 .. Len(marks) |-> marks[i][1]]

\* The last step dispatched a pointer-button event without an exception.
ButtonDispatched ==
    /\ last.op = "on_event"
    /\ last.arg.region # <<>>
    /\ last.arg.event.type \in {"LEFTMOUSE", "RIGHTMOUSE"}
    /\ last.raised = NoError

\* C31: the widget that consumes a pointer-button event is the first
\* eligible widget in dispatch order, and no other widget consumes it; with
\* no eligible widget nobody consumes it.
C31_FirstEligibleConsumes ==
    ButtonDispatched =>
        LET order == DispatchOrder(morph, last.self, 1, RecursionLimit)
            able == SelectSeq(order, LAMBDA n : Eligible(n))
        IN  Consumers = IF able = <<>> THEN <<>> ELSE <<able[1]>>

\* C32: a World constructed with auto_hide=False has auto_hide false
\* afterwards, and once an event has been dispatched its frames render the
\* visible children wherever the pointer is (the claim as stated; the
\* constructor assigns True whatever it was given).
C32_ConstructedPolicyUsed ==
    /\ ~ wld["W1"].auto_hide
    /\ (last.op = "draw" /\ last.raised = NoError /\ wld["W1"].event.type # "None") =>
           Rendered = {c \in ChildSet(morph, "W1") : ~ morph[c]._is_hidden}

====
